---------------------------- MODULE Spec2Model ----------------------------
(***************************************************************************)
(* Model of the enrollment dashboard: src/service_dashboard.py (the API    *)
(* variant) and src/simple_dashboard.py (the CSV variant).  Spec is the    *)
(* normalization-and-aggregation pipeline applied to one table;            *)
(* SessionSpec is a running session: loads, reset, month filter, exports.  *)
(*                                                                         *)
(* A cell value is a record [kind, chars]: kind "str" carries the text as  *)
(* a sequence of one-character strings, kind "None" is Python's None and   *)
(* kind "NaN" is the float NaN pandas uses for a missing cell.  A          *)
(* DataFrame is [columns, rows]: a set of column names and a sequence of   *)
(* rows, each row a function from the column names to cell values.         *)
(* Percentages are kept in tenths of a percent (66.7 % is 667).            *)
(***************************************************************************)
EXTENDS Integers, Sequences, FiniteSets, TLC

VARIABLES variant, raw, df, df2, kpis, tutor_perf, team_perf, course_analysis, pc,
          session_state, url_text, uploaded_file, selected_month, shown,
          message, fetched, adapter_calls, excel_data

\* What a running session holds besides the pipeline's values.
sessionVars == <<session_state, url_text, uploaded_file, selected_month, shown,
                 message, fetched, adapter_calls, excel_data>>

vars == <<variant, raw, df, df2, kpis, tutor_perf, team_perf, course_analysis, pc,
          sessionVars>>

(***************************************************************************)
(* Bounds                                                                  *)
(***************************************************************************)
MaxRows == 2

(***************************************************************************)
(* Text                                                                    *)
(***************************************************************************)
UpperCase == <<"A","B","C","D","E","F","G","H","I","J","K","L","M",
               "N","O","P","Q","R","S","T","U","V","W","X","Y","Z">>

LowerCase == <<"a","b","c","d","e","f","g","h","i","j","k","l","m",
               "n","o","p","q","r","s","t","u","v","w","x","y","z">>

Digits == <<"0","1","2","3","4","5","6","7","8","9">>

\* The characters of the model in code-point order.
Alphabet == <<" ", "-", "/">> \o Digits \o UpperCase \o LowerCase

Ord(c) == CHOOSE i \in 1..Len(Alphabet) : Alphabet[i] = c

\* str.lower() on one character.
LowerChar(c) ==
    IF \E i \in 1..Len(UpperCase) : UpperCase[i] = c
    THEN LowerCase[CHOOSE i \in 1..Len(UpperCase) : UpperCase[i] = c]
    ELSE c

\* str.lower()
Lower(s) == [i \in 1..Len(s) |-> LowerChar(s[i])]

RECURSIVE LStrip(_)
LStrip(s) == IF s # <<>> /\ Head(s) = " " THEN LStrip(Tail(s)) ELSE s

RECURSIVE RStrip(_)
RStrip(s) ==
    IF s # <<>> /\ s[Len(s)] = " " THEN RStrip(SubSeq(s, 1, Len(s) - 1)) ELSE s

\* str.strip()
Strip(s) == RStrip(LStrip(s))

\* sub in s
Contains(s, sub) ==
    \E i \in 1..(Len(s) - Len(sub) + 1) : SubSeq(s, i, i + Len(sub) - 1) = sub

\* s < t for Python strings (code-point lexicographic order).
RECURSIVE LexLess(_, _)
LexLess(s, t) ==
    IF t = <<>> THEN FALSE
    ELSE IF s = <<>> THEN TRUE
    ELSE IF Head(s) # Head(t) THEN Ord(Head(s)) < Ord(Head(t))
    ELSE LexLess(Tail(s), Tail(t))

(***************************************************************************)
(* Cell values                                                             *)
(***************************************************************************)
Txt(s) == [kind |-> "str", chars |-> s]

PyNone == [kind |-> "None", chars |-> <<>>]

NaN == [kind |-> "NaN", chars |-> <<>>]

\* str(x), and Series.astype(str) on one cell.
Str(x) ==
    CASE x.kind = "None" -> <<"N","o","n","e">>
      [] x.kind = "NaN"  -> <<"n","a","n">>
      [] OTHER           -> x.chars

\* bool(x): None and '' are falsy, NaN (a non-zero float) is truthy.
Truthy(x) ==
    CASE x.kind = "None" -> FALSE
      [] x.kind = "NaN"  -> TRUE
      [] OTHER           -> x.chars # <<>>

\* pandas notna() on one cell.
NotNa(x) == x.kind = "str"

(***************************************************************************)
(* DataFrames                                                              *)
(***************************************************************************)
EmptyFrame == [columns |-> {}, rows |-> <<>>]

\* Variation: only the number of rows is looked at (len(df) == 0).
IsEmptyRowsOnly(d) == Len(d.rows) = 0

\* DataFrame.empty: some axis has length 0.
IsEmpty(d) == Len(d.rows) = 0 \/ d.columns = {}

\* DataFrame.rename(columns = m) for a mapping m, given as a function.
Renamed(d, m) ==
    LET to(c) == IF c \in DOMAIN m THEN m[c] ELSE c
        from(n) == CHOOSE c \in d.columns : to(c) = n
    IN [columns |-> {to(c) : c \in d.columns},
        rows |-> [i \in 1..Len(d.rows) |->
                    [n \in {to(c) : c \in d.columns} |-> d.rows[i][from(n)]]]]

\* df[name] = values (one per row): adds the column, or overwrites it.
WithColumn(d, name, values) ==
    [columns |-> d.columns \cup {name},
     rows |-> [i \in 1..Len(d.rows) |->
                 [c \in d.columns \cup {name} |->
                    IF c = name THEN values[i] ELSE d.rows[i][c]]]]

\* Series.apply and the element-wise operations: one value per row.
PerRow(d) == 1..Len(d.rows)


\* Removes one column (used by the variations of the normalizer).
WithoutColumn(d, name) ==
    [columns |-> d.columns \ {name},
     rows |-> [i \in 1..Len(d.rows) |->
                 [c \in d.columns \ {name} |-> d.rows[i][c]]]]

(***************************************************************************)
(* Program constants                                                       *)
(***************************************************************************)
\* A Started_Date longer than this many characters counts as a date.
StartedDateMinLen == 4

\* The top tutor, team and course names are cut to this many characters.
TopNameLen == 20

(***************************************************************************)
(* Text literals of the two programs                                       *)
(***************************************************************************)
S_started == <<"s","t","a","r","t","e","d">>

S_start == <<"s","t","a","r","t">>

S_not == <<"n","o","t">>

S_yes == <<"y","e","s">>

S_nan == <<"n","a","n">>

S_None == <<"N","o","n","e">>

S_NaT == <<"N","a","T">>

S_NA == <<"N","/","A">>

\* ['', 'nan', 'None', 'NaT']
EmptySentinels == {<<>>, S_nan, S_None, S_NaT}

(***************************************************************************)
(* normalize_dataframe, API variant (service_dashboard.py)                 *)
(***************************************************************************)
ColumnMappingApi ==
    [k \in {"sl_no", "student_name", "course", "contact_number", "package_hours",
            "mail_id", "joining_date", "status", "started_date", "completed_date",
            "tutor_name", "team_name", "sheet_name", "new_old"} |->
        CASE k = "sl_no"          -> "SL_NO"
          [] k = "student_name"   -> "Student_Name"
          [] k = "course"         -> "Course"
          [] k = "contact_number" -> "Contact"
          [] k = "package_hours"  -> "Package_Hours"
          [] k = "mail_id"        -> "Email"
          [] k = "joining_date"   -> "Joining_Date"
          [] k = "status"         -> "Status"
          [] k = "started_date"   -> "Started_Date"
          [] k = "completed_date" -> "Completed_Date"
          [] k = "tutor_name"     -> "Tutor"
          [] k = "team_name"      -> "Team"
          [] k = "sheet_name"     -> "Month"
          [] k = "new_old"        -> "New_Old"]

\* Variation: a missing status gets a label of its own.
CleanStatusWithUnknown(x) ==
    LET s == Strip(Lower(Str(x)))
    IN IF x.kind # "str" THEN "Unknown"
       ELSE IF Contains(s, S_started) /\ ~Contains(s, S_not) THEN "Started"
       ELSE IF Contains(s, S_yes) THEN "Started"
       ELSE "Not Started"

\* Variation: the word 'not' is not looked for.
CleanStatusIgnoringNot(x) ==
    LET s == Strip(Lower(Str(x)))
    IN IF Contains(s, S_started) THEN "Started"
       ELSE IF Contains(s, S_yes) THEN "Started"
       ELSE "Not Started"

clean_status(x) ==
    LET s == Strip(Lower(Str(x)))
    IN IF Contains(s, S_started) /\ ~Contains(s, S_not) THEN "Started"
       ELSE IF Contains(s, S_yes) THEN "Started"
       ELSE "Not Started"

\* df['Status_Clean'] = df['Status'].apply(clean_status), when Status exists.
AddStatusCleanApi(d) ==
    IF "Status" \in d.columns
    THEN WithColumn(d, "Status_Clean",
                    [i \in PerRow(d) |-> clean_status(d.rows[i]["Status"])])
    ELSE d

\* The mask of the cross-verification: the trimmed text of Started_Date is long.
HasStartedDate(x) == Len(Strip(Str(x))) > StartedDateMinLen

\* df.loc[mask, 'Status_Clean'] = 'Started', when both columns exist.
CrossVerifyStartedDate(d) ==
    IF "Started_Date" \in d.columns /\ "Status_Clean" \in d.columns
    THEN WithColumn(d, "Status_Clean",
             [i \in PerRow(d) |-> IF HasStartedDate(d.rows[i]["Started_Date"])
                                  THEN "Started" ELSE d.rows[i]["Status_Clean"]])
    ELSE d

\* Variation: the text is compared without .strip().
IsCompletedApiNoStrip(x) == Truthy(x) /\ Str(x) \notin EmptySentinels

\* lambda x: bool(x) and str(x).strip() not in ['', 'nan', 'None', 'NaT']
IsCompletedApi(x) == Truthy(x) /\ Strip(Str(x)) \notin EmptySentinels

CompletionLabel(b) == IF b THEN "Completed" ELSE "In Progress"

\* Variation: the Completed_Date column is dropped once Is_Completed is derived.
AddCompletionApiConsumingDate(d) ==
    IF "Completed_Date" \in d.columns
    THEN LET flags == [i \in PerRow(d) |->
                         /\ Truthy(d.rows[i]["Completed_Date"])
                         /\ Strip(Str(d.rows[i]["Completed_Date"])) \notin EmptySentinels]
         IN WithoutColumn(
                WithColumn(WithColumn(d, "Is_Completed", flags),
                           "Completion_Status",
                           [i \in PerRow(d) |-> IF flags[i] THEN "Completed"
                                                ELSE "In Progress"]),
                "Completed_Date")
    ELSE WithColumn(WithColumn(d, "Is_Completed", [i \in PerRow(d) |-> FALSE]),
                    "Completion_Status", [i \in PerRow(d) |-> "In Progress"])

AddCompletionApi(d) ==
    IF "Completed_Date" \in d.columns
    THEN LET flags == [i \in PerRow(d) |-> IsCompletedApi(d.rows[i]["Completed_Date"])]
         IN WithColumn(WithColumn(d, "Is_Completed", flags),
                       "Completion_Status",
                       [i \in PerRow(d) |-> CompletionLabel(flags[i])])
    ELSE WithColumn(WithColumn(d, "Is_Completed", [i \in PerRow(d) |-> FALSE]),
                    "Completion_Status", [i \in PerRow(d) |-> "In Progress"])

\* Variation: the cross-verification runs before the text classification.
NormalizeApiVerifyFirst(d) ==
    IF IsEmpty(d) THEN d
    ELSE AddCompletionApi(
             AddStatusCleanApi(
                 CrossVerifyStartedDate(Renamed(d, ColumnMappingApi))))

NormalizeApi(d) ==
    IF IsEmpty(d) THEN d
    ELSE AddCompletionApi(
             CrossVerifyStartedDate(
                 AddStatusCleanApi(Renamed(d, ColumnMappingApi))))

(***************************************************************************)
(* normalize_dataframe, CSV variant (simple_dashboard.py)                  *)
(***************************************************************************)
\* The items of column_mapping in the order the loop visits them.
ColumnMappingCsv ==
    << <<"SL NO", "SL_NO">>,
       <<"STUDENT NAME", "Student_Name">>,
       <<"COURSE", "Course">>,
       <<"CONTACT NUMBER", "Contact">>,
       <<"PACKAGE (HOURS)", "Package_Hours">>,
       <<"MAIL ID", "Email">>,
       <<"JOINING DATE", "Joining_Date">>,
       <<"INDIVIDUAL - STARTED / NOT STARTED", "Status">>,
       <<" STARTED DATE", "Started_Date">>,
       <<"COURSE COMPLETED DATE", "Completed_Date">>,
       <<"TUTOR NAME", "Tutor">>,
       <<"TEAM NAME", "Team">> >>

\* for old_name, new_name in items: if old_name in df.columns: rename it.
RECURSIVE RenameEach(_, _)
RenameEach(d, items) ==
    IF items = <<>> THEN d
    ELSE LET old == Head(items)[1]
             new == Head(items)[2]
         IN RenameEach(IF old \in d.columns
                       THEN Renamed(d, [k \in {old} |-> new])
                       ELSE d,
                       Tail(items))

\* lambda x: 'Started' if 'start' in x or 'yes' in x else 'Not Started'
StatusCleanCsv(x) ==
    LET s == Lower(Str(x))
    IN IF Contains(s, S_start) \/ Contains(s, S_yes) THEN "Started"
       ELSE "Not Started"

AddStatusCleanCsv(d) ==
    IF "Status" \in d.columns
    THEN WithColumn(d, "Status_Clean",
                    [i \in PerRow(d) |-> StatusCleanCsv(d.rows[i]["Status"])])
    ELSE d

\* df['Completed_Date'].notna() & (df['Completed_Date'] != '')
IsCompletedCsv(x) == NotNa(x) /\ x # Txt(<<>>)

AddCompletionCsv(d) ==
    IF "Completed_Date" \in d.columns
    THEN LET flags == [i \in PerRow(d) |-> IsCompletedCsv(d.rows[i]["Completed_Date"])]
         IN WithColumn(WithColumn(d, "Is_Completed", flags),
                       "Completion_Status",
                       [i \in PerRow(d) |-> CompletionLabel(flags[i])])
    ELSE d

NormalizeCsv(d) ==
    IF IsEmpty(d) THEN d
    ELSE AddCompletionCsv(AddStatusCleanCsv(RenameEach(d, ColumnMappingCsv)))

\* The normalize_dataframe of the program in use.
normalize_dataframe(v, d) == IF v = "api" THEN NormalizeApi(d) ELSE NormalizeCsv(d)

(***************************************************************************)
(* Aggregation helpers                                                     *)
(***************************************************************************)
\* round(a / b * 100, 1) in tenths of a percent, halves to the even tenth.
Round1(a, b) ==
    LET q == (1000 * a) \div b
        r == (1000 * a) % b
    IN IF 2 * r > b THEN q + 1
       ELSE IF 2 * r = b /\ q % 2 = 1 THEN q + 1
       ELSE q

(***************************************************************************)
(* calculate_kpis (the same text in both programs)                         *)
(***************************************************************************)
\* len(df[df['Status_Clean'] == 'Started']) if the column exists, else 0
StartedCount(d) ==
    IF "Status_Clean" \in d.columns
    THEN Cardinality({i \in PerRow(d) : d.rows[i]["Status_Clean"] = "Started"})
    ELSE 0

\* df['Is_Completed'].sum() if the column exists, else 0
CompletedCount(d) ==
    IF "Is_Completed" \in d.columns
    THEN Cardinality({i \in PerRow(d) : d.rows[i]["Is_Completed"]})
    ELSE 0

\* not_started = total_students - started
NotStarted(total, started) == total - started

\* Variation: the operands of the subtraction are exchanged.
InProgressSwapped(started, completed) == completed - started

\* in_progress = started - completed
InProgress(started, completed) == started - completed

\* Variation: the quotient is rounded without the factor 100.
KpiRateAsFraction(n, total) == IF total > 0 THEN Round1(n, total) \div 100 ELSE 0

\* round(n / total_students * 100, 1) if total_students > 0 else 0
KpiRate(n, total) == IF total > 0 THEN Round1(n, total) ELSE 0

\* Series.value_counts(): the non-null values of the column.
CountedValues(d, col) ==
    {d.rows[i][col] : i \in {j \in PerRow(d) : NotNa(d.rows[j][col])}}

Occurrences(d, col, v) == Cardinality({i \in PerRow(d) : d.rows[i][col] = v})

FirstSeen(d, col, v) == CHOOSE i \in 1..Len(d.rows) :
    /\ d.rows[i][col] = v
    /\ \A j \in 1..(i - 1) : d.rows[j][col] # v

\* value_counts().index[0]: the most frequent value, the first seen among equals.
TopValue(d, col) ==
    CHOOSE v \in CountedValues(d, col) :
        \A w \in CountedValues(d, col) \ {v} :
            \/ Occurrences(d, col, v) > Occurrences(d, col, w)
            \/ /\ Occurrences(d, col, v) = Occurrences(d, col, w)
               /\ FirstSeen(d, col, v) < FirstSeen(d, col, w)

\* str(x)[:20]
Truncated(s) == SubSeq(s, 1, IF Len(s) < TopNameLen THEN Len(s) ELSE TopNameLen)

\* index[0] of an empty index raises IndexError.
TopRaises(d, col) == col \in d.columns /\ CountedValues(d, col) = {}

TopName(d, col) ==
    IF col \in d.columns THEN Truncated(Str(TopValue(d, col))) ELSE Truncated(S_NA)

calculate_kpis(d) ==
    IF IsEmpty(d) THEN [status |-> "returned", value |-> <<>>]
    ELSE IF \E col \in {"Tutor", "Team", "Course"} : TopRaises(d, col)
    THEN [status |-> "raised", value |-> <<>>]
    ELSE LET total_students == Len(d.rows)
             started == StartedCount(d)
             completed == CompletedCount(d)
         IN [status |-> "returned",
             value |-> [total_students |-> total_students,
                        started |-> started,
                        not_started |-> NotStarted(total_students, started),
                        completed |-> completed,
                        in_progress |-> InProgress(started, completed),
                        start_rate |-> KpiRate(started, total_students),
                        completion_rate |-> KpiRate(completed, total_students),
                        top_tutor |-> TopName(d, "Tutor"),
                        top_team |-> TopName(d, "Team"),
                        top_course |-> TopName(d, "Course")]]

(***************************************************************************)
(* The breakdowns (the same text in both programs)                         *)
(***************************************************************************)
\* df.groupby(key): one group per distinct non-null key (dropna is the default).
GroupKeys(d, key) == CountedValues(d, key)

\* The keys in the order groupby lists them (sort is the default).
RECURSIVE SortedKeys(_)
SortedKeys(S) ==
    IF S = {} THEN <<>>
    ELSE LET least == CHOOSE v \in S : \A w \in S \ {v} : LexLess(Str(v), Str(w))
         IN <<least>> \o SortedKeys(S \ {least})

Members(d, key, g) == {i \in PerRow(d) : d.rows[i][key] = g}

\* ('Student_Name', 'count'): the non-null names of the group.
TotalStudents(d, key, g) ==
    Cardinality({i \in Members(d, key, g) : NotNa(d.rows[i]["Student_Name"])})

\* ('Status_Clean', lambda x: (x == 'Started').sum())
GroupStarted(d, key, g) ==
    Cardinality({i \in Members(d, key, g) : d.rows[i]["Status_Clean"] = "Started"})

\* ('Is_Completed', 'sum')
GroupCompleted(d, key, g) ==
    Cardinality({i \in Members(d, key, g) : d.rows[i]["Is_Completed"]})

\* ('Completion_Status', lambda x: (x == 'In Progress').sum())
GroupInProgress(d, key, g) ==
    Cardinality({i \in Members(d, key, g) :
                    d.rows[i]["Completion_Status"] = "In Progress"})

\* np.where(den > 0, (num / den * 100).round(1), 0)
RateWhere(num, den) == IF den > 0 THEN Round1(num, den) ELSE 0

\* Places r after the rows whose Total_Students is at least its own.
RECURSIVE InsertByTotal(_, _)
InsertByTotal(s, r) ==
    IF s = <<>> THEN <<r>>
    ELSE IF Head(s).Total_Students >= r.Total_Students
    THEN <<Head(s)>> \o InsertByTotal(Tail(s), r)
    ELSE <<r>> \o s

\* Variation: the rows stay in the order groupby lists them.
SortByTotalOmitted(s) == s

\* sort_values('Total_Students', ascending=False); equal totals keep their order.
RECURSIVE SortByTotalDesc(_)
SortByTotalDesc(s) ==
    IF s = <<>> THEN <<>>
    ELSE InsertByTotal(SortByTotalDesc(SubSeq(s, 1, Len(s) - 1)), s[Len(s)])

\* groupby(...).agg(...) raises KeyError when a named column does not exist.
AggRaises(d, needed) == ~(needed \subseteq d.columns)

Returned(rows) == [status |-> "returned", rows |-> rows]

Raised == [status |-> "raised", rows |-> <<>>]

create_tutor_performance(d) ==
    IF IsEmpty(d) \/ "Tutor" \notin d.columns THEN Returned(<<>>)
    ELSE IF AggRaises(d, {"Student_Name", "Status_Clean", "Is_Completed",
                          "Completion_Status"})
    THEN Raised
    ELSE LET keys == SortedKeys(GroupKeys(d, "Tutor"))
             stats == [k \in 1..Len(keys) |->
                 LET g == keys[k]
                     total == TotalStudents(d, "Tutor", g)
                     started == GroupStarted(d, "Tutor", g)
                     completed == GroupCompleted(d, "Tutor", g)
                 IN [Key |-> g,
                     Total_Students |-> total,
                     Started |-> started,
                     Completed |-> completed,
                     In_Progress |-> GroupInProgress(d, "Tutor", g),
                     Start_Rate |-> RateWhere(started, total),
                     Completion_Rate |-> RateWhere(completed, started)]]
         IN Returned(SortByTotalDesc(stats))

\* The body shared by create_team_performance and create_course_analysis.
GroupPerformance(d, key) ==
    IF IsEmpty(d) \/ key \notin d.columns THEN Returned(<<>>)
    ELSE IF AggRaises(d, {"Student_Name", "Status_Clean", "Is_Completed"})
    THEN Raised
    ELSE LET keys == SortedKeys(GroupKeys(d, key))
             stats == [k \in 1..Len(keys) |->
                 LET g == keys[k]
                     started == GroupStarted(d, key, g)
                     completed == GroupCompleted(d, key, g)
                 IN [Key |-> g,
                     Total_Students |-> TotalStudents(d, key, g),
                     Started |-> started,
                     Completed |-> completed,
                     Completion_Rate |-> RateWhere(completed, started)]]
         IN Returned(SortByTotalDesc(stats))

create_team_performance(d) == GroupPerformance(d, "Team")

create_course_analysis(d) == GroupPerformance(d, "Course")

(***************************************************************************)
(* Inputs: what the source delivers                                        *)
(***************************************************************************)
\* A cell the source leaves unset: JSON null, or an empty CSV cell.
Blank == [kind |-> "blank", chars |-> <<>>]

Fields == {"name", "status", "started", "completed", "tutor", "team", "course"}

\* The records the input tables are drawn from.
Samples == <<
    \* started and completed
    [name |-> Txt(<<"A","b","e">>),
     status |-> Txt(<<"S","t","a","r","t","e","d">>),
     started |-> Txt(<<"2","0","2","4","-","0","3","-","0","1">>),
     completed |-> Txt(<<"2","0","2","3","-","0","1","-","0","1">>),
     tutor |-> Txt(<<"A","n","n">>), team |-> Txt(<<"T","1">>), course |-> Txt(<<"C","1">>)],
    \* not started
    [name |-> Txt(<<"B","e","a">>),
     status |-> Txt(<<"N","o","t"," ","S","t","a","r","t","e","d">>),
     started |-> Blank,
     completed |-> Txt(<<>>),
     tutor |-> Txt(<<"A","n","n">>), team |-> Txt(<<"T","1">>), course |-> Txt(<<"C","2">>)],
    \* started by 'yes', completion date 'NaT'
    [name |-> Txt(<<"A","b","e">>),
     status |-> Txt(<<"y","e","s">>),
     started |-> Blank,
     completed |-> Txt(<<"N","a","T">>),
     tutor |-> Txt(<<"B","o","b">>), team |-> Txt(<<"T","2">>), course |-> Txt(<<"C","1">>)],
    \* a start date under a 'Not Started' label
    [name |-> Txt(<<"B","e","a">>),
     status |-> Txt(<<"N","o","t"," ","S","t","a","r","t","e","d">>),
     started |-> Txt(<<"2","0","2","4","-","0","3","-","0","1">>),
     completed |-> Blank,
     tutor |-> Txt(<<"B","o","b">>), team |-> Txt(<<"T","1">>), course |-> Txt(<<"C","1">>)],
    \* a completion date without a start
    [name |-> Txt(<<"A","b","e">>),
     status |-> Txt(<<"N","o","t"," ","S","t","a","r","t","e","d">>),
     started |-> Blank,
     completed |-> Txt(<<"2","0","2","3","-","0","1","-","0","1">>),
     tutor |-> Txt(<<"A","n","n">>), team |-> Txt(<<"T","1">>), course |-> Txt(<<"C","1">>)],
    \* no student name
    [name |-> Blank,
     status |-> Txt(<<"S","t","a","r","t","e","d">>),
     started |-> Txt(<<"2","0","2","4","-","0","3","-","0","1">>),
     completed |-> Blank,
     tutor |-> Txt(<<"A","n","n">>), team |-> Txt(<<"T","2">>), course |-> Txt(<<"C","2">>)],
    \* no tutor, team or course
    [name |-> Txt(<<"B","e","a">>),
     status |-> Txt(<<"S","t","a","r","t","e","d">>),
     started |-> Blank,
     completed |-> Blank,
     tutor |-> Blank, team |-> Blank, course |-> Blank],
    \* a status that names neither state
    [name |-> Txt(<<"A","b","e">>),
     status |-> Txt(<<"P","e","n","d","i","n","g">>),
     started |-> Txt(<<"2","0","2","4","-","0","3","-","0","1">>),
     completed |-> Txt(<<"2","0","2","3","-","0","1","-","0","1">>),
     tutor |-> Txt(<<"B","o","b">>), team |-> Txt(<<"T","2">>), course |-> Txt(<<"C","2">>)],
    \* no status, padded short start date, blank completion
    [name |-> Txt(<<"B","e","a">>),
     status |-> Blank,
     started |-> Txt(<<" ","2","4"," "," ">>),
     completed |-> Txt(<<" ">>),
     tutor |-> Txt(<<"A","n","n">>), team |-> Txt(<<"T","2">>), course |-> Txt(<<"C","1">>)],
    \* a tutor name longer than the dashboard shows
    [name |-> Txt(<<"A","b","e">>),
     status |-> Txt(<<"S","t","a","r","t","e","d">>),
     started |-> Txt(<<"2","0","2","4","-","0","3","-","0","1">>),
     completed |-> Blank,
     tutor |-> Txt(<<"A","l","e","x","a","n","d","r","a"," ","M","o","n","t","g","o","m","e","r","y"," ","H","a","l","e">>),
     team |-> Txt(<<"T","1">>), course |-> Txt(<<"C","1">>)]
>>

\* The columns a source table may carry: all of them, all but one, or none.
Schemas == {Fields} \cup {Fields \ {f} : f \in Fields} \cup {{}}

\* The key the Apps Script API gives a field.
ApiColumn(f) ==
    CASE f = "name"      -> "student_name"
      [] f = "status"    -> "status"
      [] f = "started"   -> "started_date"
      [] f = "completed" -> "completed_date"
      [] f = "tutor"     -> "tutor_name"
      [] f = "team"      -> "team_name"
      [] f = "course"    -> "course"
      [] f = "month"     -> "sheet_name"

\* The header the CSV export gives a field.
CsvColumn(f) ==
    CASE f = "name"      -> "STUDENT NAME"
      [] f = "status"    -> "INDIVIDUAL - STARTED / NOT STARTED"
      [] f = "started"   -> " STARTED DATE"
      [] f = "completed" -> "COURSE COMPLETED DATE"
      [] f = "tutor"     -> "TUTOR NAME"
      [] f = "team"      -> "TEAM NAME"
      [] f = "course"    -> "COURSE"

\* pd.DataFrame(data['data']): JSON null stays None; no records, no columns.
FrameFromJson(schema, recs) ==
    IF recs = <<>> THEN EmptyFrame
    ELSE [columns |-> {ApiColumn(f) : f \in schema},
          rows |-> [i \in 1..Len(recs) |->
              [c \in {ApiColumn(f) : f \in schema} |->
                  LET x == recs[i][CHOOSE f \in schema : ApiColumn(f) = c]
                  IN IF x.kind = "blank" THEN PyNone ELSE x]]]

\* Cell texts pd.read_csv reads as missing (those the model's inputs can hold).
CsvNaTexts == {<<>>, S_nan, S_None, S_NA}

\* pd.read_csv(uploaded_file): a missing cell becomes NaN, header-only files load.
FrameFromCsv(schema, recs) ==
    [columns |-> {CsvColumn(f) : f \in schema},
     rows |-> [i \in 1..Len(recs) |->
         [c \in {CsvColumn(f) : f \in schema} |->
             LET x == recs[i][CHOOSE f \in schema : CsvColumn(f) = c]
             IN IF x.kind = "blank" \/ x.chars \in CsvNaTexts THEN NaN ELSE x]]]

\* The sequences of at most n sample records.
RECURSIVE RecordLists(_)
RecordLists(n) ==
    IF n = 0 THEN {<<>>}
    ELSE RecordLists(n - 1) \cup
         {Append(l, Samples[k]) : l \in {m \in RecordLists(n - 1) : Len(m) = n - 1},
                                  k \in 1..Len(Samples)}

(***************************************************************************)
(* The pipeline                                                            *)
(***************************************************************************)
Pending == [status |-> "pending", rows |-> <<>>]

PendingKpis == [status |-> "pending", value |-> <<>>]

(***************************************************************************)
(* The source adapters                                                     *)
(***************************************************************************)
\* The first element of an adapter's result: a DataFrame, or None.
NoFrame == [kind |-> "None", frame |-> EmptyFrame]

SomeFrame(d) == [kind |-> "frame", frame |-> d]

\* How a try block ends: with a returned pair, or with an exception.
Return(t, e) == [status |-> "returned", df |-> t, error |-> e, exc |-> <<>>]

Raise(text) == [status |-> "raised", df |-> NoFrame, error |-> PyNone, exc |-> text]

\* 'Unknown error'
S_UnknownError == <<"U","n","k","n","o","w","n"," ","e","r","r","o","r">>

\* str(e) of the exceptions the adapters catch.
S_ConnectionError == <<"C","o","n","n","e","c","t","i","o","n"," ","r","e","f","u","s","e","d">>

S_HTTPError == <<"5","0","0"," ","S","e","r","v","e","r"," ","E","r","r","o","r">>

S_JSONDecodeError == <<"E","x","p","e","c","t","i","n","g"," ","v","a","l","u","e">>

S_AttributeError == <<"n","o"," ","a","t","t","r","i","b","u","t","e"," ","g","e","t">>

S_ValueError == <<"D","a","t","a","F","r","a","m","e"," ","c","o","n","s","t","r","u","c","t","o","r">>

S_ParserError == <<"E","r","r","o","r"," ","t","o","k","e","n","i","z","i","n","g">>

\* The text the Apps Script puts under 'error'.
S_ScriptError == <<"S","h","e","e","t"," ","n","o","t"," ","f","o","u","n","d">>

\* JSON values as response.json() delivers them.
JsonNull == [json |-> "null", schema |-> {}, recs |-> <<>>, chars |-> <<>>]

JsonNumber == [json |-> "number", schema |-> {}, recs |-> <<>>, chars |-> <<>>]

JsonString(s) == [json |-> "string", schema |-> {}, recs |-> <<>>, chars |-> s]

\* A list of records, each with the keys of schema.
JsonRecords(schema, recs) ==
    [json |-> "records", schema |-> schema, recs |-> recs, chars |-> <<>>]

\* The Python value of a JSON null or string.
PyValue(j) == IF j.json = "string" THEN Txt(j.chars) ELSE PyNone

\* The body of a response: no JSON, a JSON array, or a JSON object whose
\* members are given as a function from its keys.
NotJson == [json |-> "malformed", members |-> <<>>]

JsonArray == [json |-> "array", members |-> <<>>]

JsonObject(m) == [json |-> "object", members |-> m]

\* requests.get raised (no response), or answered with a status and a body.
NoResponse == [outcome |-> "no_response", status_code |-> 0, body |-> NotJson]

Response(code, body) == [outcome |-> "response", status_code |-> code, body |-> body]

\* response.raise_for_status() raises for a 4xx or 5xx status.
RaisesForStatus(code) == code >= 400

\* pd.DataFrame(data['data']): a list of records or None gives a table, a
\* scalar raises ValueError.
DataFrameOf(j) ==
    CASE j.json = "records" -> [status |-> "returned",
                                frame |-> FrameFromJson(j.schema, j.recs)]
      [] j.json = "null"    -> [status |-> "returned", frame |-> EmptyFrame]
      [] OTHER              -> [status |-> "raised", frame |-> EmptyFrame]

\* The statements of fetch_data_from_sheets inside try.
FetchTry(resp) ==
    IF resp.outcome = "no_response" THEN Raise(S_ConnectionError)
    ELSE IF RaisesForStatus(resp.status_code) THEN Raise(S_HTTPError)
    ELSE IF resp.body.json = "malformed" THEN Raise(S_JSONDecodeError)
    ELSE IF resp.body.json = "object" /\ "data" \in DOMAIN resp.body.members
    THEN LET t == DataFrameOf(resp.body.members["data"])
         IN IF t.status = "raised" THEN Raise(S_ValueError)
            ELSE Return(SomeFrame(t.frame), PyNone)
    ELSE IF resp.body.json = "object"
    THEN Return(NoFrame, IF "error" \in DOMAIN resp.body.members
                         THEN PyValue(resp.body.members["error"])
                         ELSE Txt(S_UnknownError))
    ELSE Raise(S_AttributeError)

\* except Exception as e: return None, str(e)
fetch_data_from_sheets(resp) ==
    LET r == FetchTry(resp)
    IN IF r.status = "raised" THEN Return(NoFrame, Txt(r.exc)) ELSE r

\* An uploaded file: CSV text with a header line, or bytes pd.read_csv rejects.
CsvFile(schema, recs) == [content |-> "csv", schema |-> schema, recs |-> recs]

UnreadableFile == [content |-> "unreadable", schema |-> {}, recs |-> <<>>]

\* The statements of load_csv_file inside try.
LoadCsvTry(file) ==
    IF file.content = "unreadable" THEN Raise(S_ParserError)
    ELSE Return(SomeFrame(FrameFromCsv(file.schema, file.recs)), PyNone)

\* except Exception as e: return None, str(e)
load_csv_file(file) ==
    LET r == LoadCsvTry(file)
    IN IF r.status = "raised" THEN Return(NoFrame, Txt(r.exc)) ELSE r

\* No adapter has been called by the last action.
NotCalled == [status |-> "not_called", df |-> NoFrame, error |-> PyNone, exc |-> <<>>]

(***************************************************************************)
(* Inputs of a session: what the source may answer                         *)
(***************************************************************************)
S_Jan == <<"J","a","n">>

S_Feb == <<"F","e","b">>

WithMonth(rec, m) ==
    [f \in Fields \cup {"month"} |-> IF f = "month" THEN m ELSE rec[f]]

\* The records of the sheets: a started one of January, one of February that
\* has not started, and one without sheet name, tutor, team and course.
SessionSamples == <<WithMonth(Samples[1], Txt(S_Jan)),
                    WithMonth(Samples[2], Txt(S_Feb)),
                    WithMonth(Samples[7], Blank)>>

\* The record lists a sheet may hold: none, one of each month, one of them
\* without sheet name, and a single record without tutor, team and course.
SessionLists ==
    {<<>>,
     <<SessionSamples[1], SessionSamples[2]>>,
     <<SessionSamples[1], SessionSamples[3]>>,
     <<SessionSamples[3]>>}

\* One list under keys without the sheet name, and without the status.
SheetData ==
    {JsonRecords(Fields \cup {"month"}, recs) : recs \in SessionLists}
    \cup {JsonRecords(Fields, <<SessionSamples[1], SessionSamples[2]>>),
          JsonRecords((Fields \cup {"month"}) \ {"status"},
                      <<SessionSamples[1], SessionSamples[2]>>)}

Bodies ==
    {NotJson, JsonArray}
    \cup {JsonObject(<<>>),
          JsonObject([error |-> JsonString(S_ScriptError)]),
          JsonObject([error |-> JsonNull]),
          JsonObject([data |-> JsonNull]),
          JsonObject([data |-> JsonNumber]),
          JsonObject([data |-> JsonNull, error |-> JsonString(S_ScriptError)])}
    \cup {JsonObject([data |-> d]) : d \in SheetData}

Responses ==
    {NoResponse, Response(500, NotJson)} \cup {Response(200, b) : b \in Bodies}

Files ==
    {UnreadableFile}
    \cup {CsvFile(Fields, recs) : recs \in SessionLists}
    \cup {CsvFile(Fields \ {"status"}, <<SessionSamples[1], SessionSamples[2]>>)}

(***************************************************************************)
(* main(): one run of the script                                           *)
(***************************************************************************)
\* The value the text input starts with when the session holds no URL.
DefaultUrl == "https://script.google.com/macros/s/AKfycbzTQAKD41vvCK-An5VpqacvdoR-6MWFhmtaB45KWyVhuiUZ-dgUWDFaogsNB5sdJ_Ad/exec"

\* A URL the user types.
UserUrl == "https://script.google.com/macros/s/another-deployment/exec"

\* The text box: untouched since the session began, or holding typed text.
NotTyped == [typed |-> FALSE, text |-> ""]

Typed(u) == [typed |-> TRUE, text |-> u]

\* st.session_state of a new session, and after clear(): no keys.
EmptySessionState == <<>>

\* if 'data_df' not in st.session_state: ...; if 'api_url' not in ...: ...
InitSessionState(v, ss) ==
    LET s1 == IF "data_df" \in DOMAIN ss THEN ss ELSE ("data_df" :> NoFrame) @@ ss
    IN IF v = "api" /\ "api_url" \notin DOMAIN s1
       THEN ("api_url" :> "") @@ s1
       ELSE s1

\* st.text_input(value = session api_url, or the default URL when that is empty)
TextInput(ss, box) ==
    IF box.typed THEN box.text
    ELSE IF ss["api_url"] # "" THEN ss["api_url"]
    ELSE DefaultUrl

\* if api_url: st.session_state.api_url = api_url
StoreUrl(ss, api_url) ==
    IF api_url # "" THEN [ss EXCEPT !["api_url"] = api_url] ELSE ss

\* The script up to the buttons: the session keys and, in the API variant,
\* the URL box.
Sidebar(v, ss, box) ==
    LET s == InitSessionState(v, ss)
    IN IF v = "api" THEN StoreUrl(s, TextInput(s, box)) ELSE s

\* The URL the Fetch button works with.
CurrentUrl(v, ss, box) == TextInput(InitSessionState(v, ss), box)

S_AllTime == <<"A","l","l"," ","T","i","m","e">>

\* if 'Month' in df.columns (the CSV variant has no filter)
HasMonthFilter(v, d) == v = "api" /\ "Month" \in d.columns

\* df['Month'].unique().astype(str): the texts offered after 'All Time'.
MonthOptions(d) == {Str(d.rows[i]["Month"]) : i \in PerRow(d)}

\* df[df['Month'] == selected_month]
FilterMonth(d, m) ==
    LET keep(r) == r["Month"] = Txt(m)
    IN [columns |-> d.columns, rows |-> SelectSeq(d.rows, keep)]

\* The table the dashboard is computed from.
FilteredView(v, d, sel) ==
    IF HasMonthFilter(v, d) /\ sel # S_AllTime THEN FilterMonth(d, sel) ELSE d

\* The main content is entered: a table is loaded and it is not empty.
HasData(ss) == ss["data_df"].kind = "frame" /\ ~IsEmpty(ss["data_df"].frame)

\* The month selectbox is drawn in this run.
SelectboxShown(v, ss) == HasData(ss) /\ HasMonthFilter(v, ss["data_df"].frame)

\* A selectbox keeps the user's choice while it is drawn with the same options.
KeptSelection(v, old, new, sel) ==
    IF /\ SelectboxShown(v, old) /\ SelectboxShown(v, new)
       /\ MonthOptions(old["data_df"].frame) = MonthOptions(new["data_df"].frame)
    THEN sel
    ELSE S_AllTime

\* A step of the script that runs only if the one before it returned.
After(prev, value) == IF prev.status = "returned" THEN value ELSE Pending

\* The else branch of the main content: the prompt to load data.
PromptView ==
    [shown |-> "prompt", df |-> EmptyFrame, kpis |-> PendingKpis,
     tutor_perf |-> Pending, team_perf |-> Pending,
     course_analysis |-> Pending, excel_data |-> "none"]

\* The run ended by an exception before the breakdowns.
ExceptionView(view, k) ==
    [shown |-> "exception", df |-> view, kpis |-> k,
     tutor_perf |-> Pending, team_perf |-> Pending,
     course_analysis |-> Pending, excel_data |-> "none"]

\* The report and the tabs, given the three breakdowns: create_excel_report runs
\* on every run of the CSV variant and on the button's click in the API variant.
BreakdownsView(v, view, k, tp, tm, ca, excel_clicked) ==
    [shown |-> IF ca.status = "returned" THEN "dashboard" ELSE "exception",
     df |-> view, kpis |-> k,
     tutor_perf |-> tp, team_perf |-> tm, course_analysis |-> ca,
     excel_data |-> IF (v = "csv" \/ excel_clicked) /\ ca.status = "returned"
                    THEN "built" ELSE "none"]

TeamAndCourseView(v, view, k, tp, tm, excel_clicked) ==
    BreakdownsView(v, view, k, tp, tm, After(tm, create_course_analysis(view)),
                   excel_clicked)

\* The KPI cards and what follows them.  A raise of calculate_kpis, and the
\* KeyError of kpis['total_students'] on the empty mapping, end the run.
KpiView(v, view, k, tp, excel_clicked) ==
    IF k.status = "raised" \/ k.value = <<>>
    THEN ExceptionView(view, k)
    ELSE TeamAndCourseView(v, view, k, tp,
                           After(tp, create_team_performance(view)), excel_clicked)

DataView(v, view, excel_clicked) ==
    KpiView(v, view, calculate_kpis(view), create_tutor_performance(view),
            excel_clicked)

\* The main content of one run: what is shown, and the values computed for it.
Render(v, ss, sel, excel_clicked) ==
    IF ~HasData(ss) THEN PromptView
    ELSE DataView(v, FilteredView(v, ss["data_df"].frame, sel), excel_clicked)

NoMessage == [kind |-> "none", text |-> <<>>]

S_ErrorPrefix == <<"E","r","r","o","r",":"," ">>

\* st.error(f"Error: {error}")
ErrorMessage(error) == [kind |-> "error", text |-> S_ErrorPrefix \o Str(error)]

\* Variation: a failed load also unsets the table.
LoadOutcomeUnsetting(v, ss, res) ==
    IF res.df.kind = "frame"
    THEN [session_state |-> [ss EXCEPT !["data_df"] =
                                SomeFrame(normalize_dataframe(v, res.df.frame))],
          message |-> NoMessage, loaded |-> TRUE]
    ELSE [session_state |-> [ss EXCEPT !["data_df"] = NoFrame],
          message |-> ErrorMessage(res.error), loaded |-> FALSE]

\* What the load button does with the adapter's pair: a table is normalized
\* and stored and the script reruns (which takes the success message away);
\* otherwise the error is shown and the session is left as it is.
LoadOutcome(v, ss, res) ==
    IF res.df.kind = "frame"
    THEN [session_state |-> [ss EXCEPT !["data_df"] =
                                SomeFrame(normalize_dataframe(v, res.df.frame))],
          message |-> NoMessage, loaded |-> TRUE]
    ELSE [session_state |-> ss,
          message |-> ErrorMessage(res.error), loaded |-> FALSE]

(***************************************************************************)
(* The pipeline's steps                                                    *)
(***************************************************************************)
\* The table as fetch_data_from_sheets or load_csv_file returns it.  A CSV
\* file without a header line does not parse, so it yields no table.
Init ==
    /\ variant \in {"api", "csv"}
    /\ \E schema \in Schemas, recs \in RecordLists(MaxRows) :
          /\ variant = "csv" => schema # {}
          /\ raw = IF variant = "api" THEN FrameFromJson(schema, recs)
                   ELSE FrameFromCsv(schema, recs)
    /\ df = EmptyFrame
    /\ df2 = EmptyFrame
    /\ kpis = PendingKpis
    /\ tutor_perf = Pending
    /\ team_perf = Pending
    /\ course_analysis = Pending
    /\ pc = "loaded"
    /\ session_state = EmptySessionState
    /\ url_text = NotTyped
    /\ uploaded_file = FALSE
    /\ selected_month = S_AllTime
    /\ shown = "prompt"
    /\ message = NoMessage
    /\ fetched = NotCalled
    /\ adapter_calls = 0
    /\ excel_data = "none"

\* df = normalize_dataframe(df)
Normalize ==
    /\ pc = "loaded"
    /\ df' = normalize_dataframe(variant, raw)
    /\ pc' = "normalized"
    /\ UNCHANGED <<variant, raw, df2, kpis, tutor_perf, team_perf, course_analysis,
                   sessionVars>>

\* normalize_dataframe applied to its own result.
NormalizeAgain ==
    /\ pc = "normalized"
    /\ df2' = normalize_dataframe(variant, df)
    /\ pc' = "renormalized"
    /\ UNCHANGED <<variant, raw, df, kpis, tutor_perf, team_perf, course_analysis,
                   sessionVars>>

\* kpis = calculate_kpis(df)
CalculateKpis ==
    /\ pc = "renormalized"
    /\ kpis' = calculate_kpis(df)
    /\ pc' = "kpis"
    /\ UNCHANGED <<variant, raw, df, df2, tutor_perf, team_perf, course_analysis,
                   sessionVars>>

\* tutor_perf = create_tutor_performance(df)
CreateTutorPerformance ==
    /\ pc = "kpis"
    /\ tutor_perf' = create_tutor_performance(df)
    /\ pc' = "tutor"
    /\ UNCHANGED <<variant, raw, df, df2, kpis, team_perf, course_analysis,
                   sessionVars>>

\* team_perf = create_team_performance(df)
CreateTeamPerformance ==
    /\ pc = "tutor"
    /\ team_perf' = create_team_performance(df)
    /\ pc' = "team"
    /\ UNCHANGED <<variant, raw, df, df2, kpis, tutor_perf, course_analysis,
                   sessionVars>>

\* course_analysis = create_course_analysis(df)
CreateCourseAnalysis ==
    /\ pc = "team"
    /\ course_analysis' = create_course_analysis(df)
    /\ pc' = "done"
    /\ UNCHANGED <<variant, raw, df, df2, kpis, tutor_perf, team_perf,
                   sessionVars>>

Next ==
    \/ Normalize
    \/ NormalizeAgain
    \/ CalculateKpis
    \/ CreateTutorPerformance
    \/ CreateTeamPerformance
    \/ CreateCourseAnalysis

Spec == Init /\ [][Next]_vars

(***************************************************************************)
(* The session: user actions on the running dashboard                      *)
(***************************************************************************)
\* The main content of the run that ends the action.
Show(ss, sel, excel_clicked) ==
    \E r \in {Render(variant, ss, sel, excel_clicked)} :
       /\ session_state' = ss
       /\ selected_month' = sel
       /\ shown' = r.shown
       /\ df' = r.df
       /\ kpis' = r.kpis
       /\ tutor_perf' = r.tutor_perf
       /\ team_perf' = r.team_perf
       /\ course_analysis' = r.course_analysis
       /\ excel_data' = r.excel_data

\* An action that calls no adapter and shows no message.
Quiet ==
    /\ message' = NoMessage
    /\ fetched' = NotCalled
    /\ adapter_calls' = 0

\* The first run of a new session.
SessionInit ==
    /\ variant \in {"api", "csv"}
    /\ raw = EmptyFrame
    /\ df2 = EmptyFrame
    /\ url_text = NotTyped
    /\ uploaded_file = FALSE
    /\ selected_month = S_AllTime
    /\ session_state = Sidebar(variant, EmptySessionState, NotTyped)
    /\ \E r \in {Render(variant, session_state, S_AllTime, FALSE)} :
          /\ shown = r.shown
          /\ df = r.df
          /\ kpis = r.kpis
          /\ tutor_perf = r.tutor_perf
          /\ team_perf = r.team_perf
          /\ course_analysis = r.course_analysis
          /\ excel_data = r.excel_data
    /\ message = NoMessage
    /\ fetched = NotCalled
    /\ adapter_calls = 0
    /\ pc = "started"

\* The user edits the URL box.
TypeUrl ==
    /\ variant = "api"
    /\ \E u \in {"", UserUrl, DefaultUrl} :
          /\ u # CurrentUrl(variant, session_state, url_text)
          /\ url_text' = Typed(u)
          /\ Show(Sidebar(variant, session_state, Typed(u)), selected_month, FALSE)
    /\ Quiet
    /\ pc' = "url_typed"
    /\ UNCHANGED <<variant, raw, df2, uploaded_file>>

\* The user puts a file into the uploader.
UploadFile ==
    /\ variant = "csv"
    /\ ~uploaded_file
    /\ uploaded_file' = TRUE
    /\ Show(Sidebar(variant, session_state, url_text), selected_month, FALSE)
    /\ Quiet
    /\ pc' = "uploaded"
    /\ UNCHANGED <<variant, raw, df2, url_text>>

\* The run of a load button, given the adapter's pair.
Load(res) ==
    \E ss \in {Sidebar(variant, session_state, url_text)} :
    \E out \in {LoadOutcome(variant, ss, res)} :
       /\ fetched' = res
       /\ adapter_calls' = 1
       /\ message' = out.message
       /\ Show(out.session_state,
               KeptSelection(variant, ss, out.session_state, selected_month),
               FALSE)
       /\ pc' = IF out.loaded THEN "load_ok" ELSE "load_error"
       /\ UNCHANGED <<variant, raw, df2, url_text, uploaded_file>>

\* Fetch Data (enabled while the URL box is not empty).
FetchData ==
    /\ variant = "api"
    /\ CurrentUrl(variant, session_state, url_text) # ""
    /\ \E resp \in Responses : Load(fetch_data_from_sheets(resp))

\* Load Data (drawn while a file is uploaded).
LoadData ==
    /\ variant = "csv"
    /\ uploaded_file
    /\ \E file \in Files : Load(load_csv_file(file))

\* Refresh (enabled while a table is loaded): st.rerun().
Refresh ==
    /\ variant = "api"
    /\ session_state["data_df"].kind = "frame"
    /\ Show(Sidebar(variant, session_state, url_text), selected_month, FALSE)
    /\ Quiet
    /\ pc' = "refreshed"
    /\ UNCHANGED <<variant, raw, df2, url_text, uploaded_file>>

\* Variation: Clear unsets the table and keeps the rest of the session.
ClearTableOnly ==
    /\ url_text' = url_text
    /\ uploaded_file' = uploaded_file
    /\ Show([Sidebar(variant, session_state, url_text) EXCEPT !["data_df"] = NoFrame],
            S_AllTime, FALSE)
    /\ Quiet
    /\ pc' = "cleared"
    /\ UNCHANGED <<variant, raw, df2>>

\* Clear: st.session_state.clear(); st.rerun().  The rerun is the first run of
\* an empty session; the uploader may keep its file or drop it.
Clear ==
    /\ url_text' = NotTyped
    /\ uploaded_file' \in {FALSE, uploaded_file}
    /\ Show(Sidebar(variant, EmptySessionState, NotTyped), S_AllTime, FALSE)
    /\ Quiet
    /\ pc' = "cleared"
    /\ UNCHANGED <<variant, raw, df2>>

\* Variation: the filtered table is stored back into the session.
SelectMonthStoringView ==
    /\ SelectboxShown(variant, session_state)
    /\ \E m \in {S_AllTime} \cup MonthOptions(session_state["data_df"].frame) :
          /\ m # selected_month
          /\ \E ss \in {Sidebar(variant, session_state, url_text)} :
                Show([ss EXCEPT !["data_df"] =
                         SomeFrame(FilteredView(variant, ss["data_df"].frame, m))],
                     m, FALSE)
    /\ Quiet
    /\ pc' = "month_selected"
    /\ UNCHANGED <<variant, raw, df2, url_text, uploaded_file>>

\* The user picks an entry of the month selectbox.
SelectMonth ==
    /\ SelectboxShown(variant, session_state)
    /\ \E m \in {S_AllTime} \cup MonthOptions(session_state["data_df"].frame) :
          /\ m # selected_month
          /\ Show(Sidebar(variant, session_state, url_text), m, FALSE)
    /\ Quiet
    /\ pc' = "month_selected"
    /\ UNCHANGED <<variant, raw, df2, url_text, uploaded_file>>

\* Generate Excel Report (API variant; the button follows the KPI cards).
GenerateExcel ==
    /\ variant = "api"
    /\ shown # "prompt" /\ kpis.status = "returned" /\ kpis.value # <<>>
    /\ Show(Sidebar(variant, session_state, url_text), selected_month, TRUE)
    /\ Quiet
    /\ pc' = "excel"
    /\ UNCHANGED <<variant, raw, df2, url_text, uploaded_file>>

\* Download CSV: the click reruns the script.
DownloadCsv ==
    /\ shown # "prompt" /\ kpis.status = "returned" /\ kpis.value # <<>>
    /\ Show(Sidebar(variant, session_state, url_text), selected_month, FALSE)
    /\ Quiet
    /\ pc' = "downloaded"
    /\ UNCHANGED <<variant, raw, df2, url_text, uploaded_file>>

\* Switching between the tabs happens in the browser: no run of the script.
ViewTab ==
    /\ shown = "dashboard"
    /\ pc' = "tab_viewed"
    /\ UNCHANGED <<variant, raw, df, df2, kpis, tutor_perf, team_perf,
                   course_analysis, sessionVars>>

SessionNext ==
    \/ TypeUrl
    \/ UploadFile
    \/ FetchData
    \/ LoadData
    \/ Refresh
    \/ Clear
    \/ SelectMonth
    \/ GenerateExcel
    \/ DownloadCsv
    \/ ViewTab

SessionSpec == SessionInit /\ [][SessionNext]_vars

(***************************************************************************)
(* Properties                                                              *)
(***************************************************************************)
Normalized == pc # "loaded"

\* The input has at least one record and one column (not DataFrame.empty).
NonEmptyInput == Len(raw.rows) > 0 /\ raw.columns # {}

Breakdowns == <<[key |-> "Tutor", perf |-> tutor_perf],
                [key |-> "Team", perf |-> team_perf],
                [key |-> "Course", perf |-> course_analysis]>>

RECURSIVE SumTotals(_)
SumTotals(rows) ==
    IF rows = <<>> THEN 0 ELSE Head(rows).Total_Students + SumTotals(Tail(rows))

\* The text classification said 'Not Started' and the start date overrode it.
OverrideActed(d) ==
    /\ {"Status", "Started_Date", "Status_Clean"} \subseteq d.columns
    /\ \E i \in 1..Len(d.rows) :
          /\ clean_status(d.rows[i]["Status"]) = "Not Started"
          /\ d.rows[i]["Status_Clean"] = "Started"

\* C1 (as claimed): in every breakdown every Start_Rate_% and
\* Completion_Rate_% lies in [0, 100] (0..1000 tenths), and is 0 when its
\* denominator (Total_Students, respectively Started) is 0.
C1_RatesInRange ==
    /\ \A k \in 1..Len(Breakdowns) : \A i \in 1..Len(Breakdowns[k].perf.rows) :
          LET r == Breakdowns[k].perf.rows[i]
          IN /\ r.Completion_Rate \in 0..1000
             /\ r.Started = 0 => r.Completion_Rate = 0
    /\ \A i \in 1..Len(tutor_perf.rows) :
          LET r == tutor_perf.rows[i]
          IN /\ r.Start_Rate \in 0..1000
             /\ r.Total_Students = 0 => r.Start_Rate = 0

\* C2: the summary calculate_kpis returns for a non-empty table satisfies
\* started + not_started = total_students and completed + in_progress = started
\* (with total_students the number of records of the table).
C2_KpiIdentities ==
    (kpis.status = "returned" /\ Len(df.rows) > 0 /\ df.columns # {}) =>
        /\ kpis.value.started + kpis.value.not_started = kpis.value.total_students
        /\ kpis.value.completed + kpis.value.in_progress = kpis.value.started
        /\ kpis.value.total_students = Len(df.rows)

C2_Witness ==
    /\ kpis.status = "returned"
    /\ Len(df.rows) > 0 /\ df.columns # {}
    /\ kpis.value.started > 0
    /\ kpis.value.not_started > 0
    /\ kpis.value.completed > 0

\* C3 (as claimed): after normalize_dataframe on a non-empty table every
\* record carries a Status_Clean, and it is 'Started' or 'Not Started'.
C3_StatusCleanOnEveryRecord ==
    (Normalized /\ NonEmptyInput) =>
        /\ "Status_Clean" \in df.columns
        /\ \A i \in 1..Len(df.rows) :
              df.rows[i]["Status_Clean"] \in {"Started", "Not Started"}

\* C3 (amended): after normalize_dataframe on a non-empty table that has the
\* status column, every record carries a Status_Clean, and it is 'Started' or
\* 'Not Started'; a table without a status column gets no Status_Clean column.
C3_StatusCleanWhenStatus ==
    (Normalized /\ NonEmptyInput) =>
        IF "Status" \in df.columns
        THEN /\ "Status_Clean" \in df.columns
             /\ \A i \in 1..Len(df.rows) :
                   df.rows[i]["Status_Clean"] \in {"Started", "Not Started"}
        ELSE "Status_Clean" \notin df.columns

C3_Witness ==
    /\ Normalized
    /\ "Status_Clean" \in df.columns
    /\ \E i \in 1..Len(df.rows) : df.rows[i]["Status_Clean"] = "Started"
    /\ \E i \in 1..Len(df.rows) : df.rows[i]["Status_Clean"] = "Not Started"
    /\ \E i \in 1..Len(df.rows) : ~NotNa(df.rows[i]["Status"])

\* C4 (as claimed): after normalize_dataframe every record whose start date
\* has a trimmed length above 4 has Status_Clean = 'Started'.
C4_StartDateForcesStarted ==
    (Normalized /\ "Started_Date" \in df.columns) =>
        \A i \in 1..Len(df.rows) :
            Len(Strip(Str(df.rows[i]["Started_Date"]))) > 4 =>
                /\ "Status_Clean" \in df.columns
                /\ df.rows[i]["Status_Clean"] = "Started"

\* C4 (amended): in the API variant, on a table that has a status column,
\* every record whose start date has a trimmed length above 4 has
\* Status_Clean = 'Started' whatever its status text; the CSV variant has no
\* such override: there Status_Clean is 'Started' exactly when the lower-cased
\* status text contains 'start' or 'yes'.
C4_StartDateForcesStartedApi ==
    (Normalized /\ {"Status", "Started_Date"} \subseteq df.columns) =>
        \A i \in 1..Len(df.rows) :
            IF variant = "api"
            THEN Len(Strip(Str(df.rows[i]["Started_Date"]))) > 4 =>
                     df.rows[i]["Status_Clean"] = "Started"
            ELSE df.rows[i]["Status_Clean"] = "Started" <=>
                     \/ Contains(Lower(Str(df.rows[i]["Status"])), S_start)
                     \/ Contains(Lower(Str(df.rows[i]["Status"])), S_yes)

C4_Witness ==
    /\ pc = "normalized"
    /\ variant = "api"
    /\ OverrideActed(df)

\* The completion rule as the specification words it: the value is there and
\* its trimmed text is none of '', 'nan', 'None', 'NaT'.
CompletionDateGiven(x) ==
    /\ NotNa(x)
    /\ Strip(Str(x)) # <<>>
    /\ Strip(Str(x)) # S_nan
    /\ Strip(Str(x)) # S_None
    /\ Strip(Str(x)) # S_NaT

\* C5 (as claimed): in both variants Is_Completed is true exactly for the
\* records with a completion date given, and a table without a
\* completion-date column gets Is_Completed = false on every record.
C5_IsCompletedBothVariants ==
    (Normalized /\ NonEmptyInput) =>
        /\ "Is_Completed" \in df.columns
        /\ \A i \in 1..Len(df.rows) :
              df.rows[i]["Is_Completed"] <=>
                  /\ "Completed_Date" \in df.columns
                  /\ CompletionDateGiven(df.rows[i]["Completed_Date"])

\* C5 (amended): in the API variant Is_Completed is true exactly for the
\* records with a completion date given, and without a completion-date column
\* it is false on every record; in the CSV variant Is_Completed is true exactly
\* when the value is not missing and not the empty string (so 'NaT' and blank
\* text count as completed), and without a completion-date column no
\* Is_Completed column is created.
C5_IsCompletedPerVariant ==
    (Normalized /\ NonEmptyInput) =>
        IF variant = "api"
        THEN /\ "Is_Completed" \in df.columns
             /\ \A i \in 1..Len(df.rows) :
                   df.rows[i]["Is_Completed"] <=>
                       /\ "Completed_Date" \in df.columns
                       /\ CompletionDateGiven(df.rows[i]["Completed_Date"])
        ELSE IF "Completed_Date" \in df.columns
        THEN /\ "Is_Completed" \in df.columns
             /\ \A i \in 1..Len(df.rows) :
                   df.rows[i]["Is_Completed"] <=>
                       /\ df.rows[i]["Completed_Date"].kind = "str"
                       /\ df.rows[i]["Completed_Date"].chars # <<>>
        ELSE "Is_Completed" \notin df.columns

C5_Witness ==
    /\ Normalized
    /\ variant = "api"
    /\ "Completed_Date" \in df.columns
    /\ \E i \in 1..Len(df.rows) : df.rows[i]["Is_Completed"]
    /\ \E i \in 1..Len(df.rows) :
          /\ df.rows[i]["Completed_Date"].kind = "str"
          /\ df.rows[i]["Completed_Date"].chars # <<>>
          /\ ~df.rows[i]["Is_Completed"]

\* C6 (as claimed): no breakdown raises on a table normalize_dataframe
\* returns, and each returns no rows when its grouping column is absent or the
\* table is empty.
C6_BreakdownsNeverRaise ==
    \A k \in 1..Len(Breakdowns) :
        /\ Breakdowns[k].perf.status # "raised"
        /\ (Breakdowns[k].perf.status = "returned"
              /\ (Breakdowns[k].key \notin df.columns \/ Len(df.rows) = 0))
           => Breakdowns[k].perf.rows = <<>>

\* C7 (as claimed): when the table has the grouping column, the
\* Total_Students of the breakdown's rows sum to the number of records.
C7_TotalsSumToRecords ==
    \A k \in 1..Len(Breakdowns) :
        (Breakdowns[k].perf.status # "pending" /\ Breakdowns[k].key \in df.columns)
        => /\ Breakdowns[k].perf.status = "returned"
           /\ SumTotals(Breakdowns[k].perf.rows) = Len(df.rows)

\* C8 (as claimed): when the table has the grouping column, the breakdown
\* has exactly one row per distinct non-null value of that column.
C8_OneRowPerGroupValue ==
    \A k \in 1..Len(Breakdowns) :
        (Breakdowns[k].perf.status # "pending" /\ Breakdowns[k].key \in df.columns)
        => LET rows == Breakdowns[k].perf.rows
               key == Breakdowns[k].key
               values == {df.rows[i][key] : i \in 1..Len(df.rows)} \ {PyNone, NaN}
           IN /\ Breakdowns[k].perf.status = "returned"
              /\ Len(rows) = Cardinality(values)
              /\ {rows[i].Key : i \in 1..Len(rows)} = values

\* C9: normalize_dataframe is idempotent: applied to its own result it gives
\* the same column names and the same Status_Clean, Is_Completed and
\* Completion_Status on every record.
C9_NormalizeIdempotent ==
    (pc \notin {"loaded", "normalized"}) =>
        /\ df2.columns = df.columns
        /\ Len(df2.rows) = Len(df.rows)
        /\ \A i \in 1..Len(df.rows) :
              \A c \in {"Status_Clean", "Is_Completed", "Completion_Status"}
                          \cap df.columns :
                  df2.rows[i][c] = df.rows[i][c]

C9_Witness ==
    /\ pc = "renormalized"
    /\ OverrideActed(df2)
    /\ \E i \in 1..Len(df2.rows) : df2.rows[i]["Is_Completed"]

\* C10: for an empty input table normalize_dataframe returns the table
\* unchanged, calculate_kpis returns an empty mapping and the three breakdowns
\* return empty tables; none raises.
C10_EmptyTablePassesThrough ==
    (Len(raw.rows) = 0 \/ raw.columns = {}) =>
        /\ Normalized => df = raw
        /\ kpis.status # "raised"
        /\ kpis.status = "returned" => DOMAIN kpis.value = {}
        /\ \A k \in 1..Len(Breakdowns) :
              /\ Breakdowns[k].perf.status # "raised"
              /\ Breakdowns[k].perf.rows = <<>>

C10_Witness ==
    /\ pc = "done"
    /\ Len(raw.rows) = 0
    /\ "TUTOR NAME" \in raw.columns
    /\ kpis.status = "returned"
    /\ course_analysis.status = "returned"

\* The name is the most frequent value of the column cut to TopNameLen
\* characters, or 'N/A' when the column is absent or holds no value.
TopAsClaimed(d, col, name) ==
    IF col \notin d.columns \/ CountedValues(d, col) = {}
    THEN name = S_NA
    ELSE \E v \in CountedValues(d, col) :
            /\ \A w \in CountedValues(d, col) :
                  Occurrences(d, col, v) >= Occurrences(d, col, w)
            /\ name = SubSeq(Str(v), 1, IF Len(Str(v)) < TopNameLen
                                         THEN Len(Str(v)) ELSE TopNameLen)

\* C14 (as claimed): for any non-empty table calculate_kpis returns without
\* raising, and top_tutor, top_team and top_course are each the most frequent
\* value of the column cut to 20 characters, or 'N/A' when the column is absent
\* or holds no values.
C14_TopNamesOrNA ==
    (kpis.status # "pending" /\ ~IsEmpty(df)) =>
        /\ kpis.status = "returned"
        /\ TopAsClaimed(df, "Tutor", kpis.value.top_tutor)
        /\ TopAsClaimed(df, "Team", kpis.value.top_team)
        /\ TopAsClaimed(df, "Course", kpis.value.top_course)

\* rate (in tenths of a percent) is n / total as a percentage, to the nearest tenth.
RateIs(rate, n, total) ==
    LET diff == rate * total - 1000 * n
    IN 2 * (IF diff < 0 THEN 0 - diff ELSE diff) <= total

\* C15 (as claimed): every summary calculate_kpis returns carries start_rate and
\* completion_rate; they are started/total and completed/total as percentages
\* in [0, 100], and both are 0 when the table is empty.
C15_RatesAlwaysPresent ==
    kpis.status = "returned" =>
        /\ kpis.value # <<>>
        /\ kpis.value.start_rate \in 0..1000
        /\ kpis.value.completion_rate \in 0..1000
        /\ IF IsEmpty(df)
           THEN kpis.value.start_rate = 0 /\ kpis.value.completion_rate = 0
           ELSE /\ RateIs(kpis.value.start_rate, kpis.value.started, Len(df.rows))
                /\ RateIs(kpis.value.completion_rate, kpis.value.completed,
                          Len(df.rows))

\* C15 (amended): the summary calculate_kpis returns for a non-empty table has
\* start_rate = started/total and completion_rate = completed/total as
\* percentages to one decimal, both in [0, 100]; for an empty table the summary
\* is the empty mapping, which carries no rates.
C15_RatesOfNonEmptyTable ==
    kpis.status = "returned" =>
        IF IsEmpty(df)
        THEN kpis.value = <<>>
        ELSE /\ kpis.value # <<>>
             /\ kpis.value.total_students = Len(df.rows)
             /\ kpis.value.start_rate \in 0..1000
             /\ kpis.value.completion_rate \in 0..1000
             /\ RateIs(kpis.value.start_rate, kpis.value.started, Len(df.rows))
             /\ RateIs(kpis.value.completion_rate, kpis.value.completed,
                       Len(df.rows))

C15_Witness ==
    /\ kpis.status = "returned"
    /\ ~IsEmpty(df)
    /\ kpis.value.start_rate = 500
    /\ kpis.value.completion_rate = 1000

\* The record's start date does not override the status text: the column is
\* absent, or the trimmed text of the cell has at most StartedDateMinLen characters.
NoStartDateOverride(d, i) ==
    \/ "Started_Date" \notin d.columns
    \/ Len(Strip(Str(d.rows[i]["Started_Date"]))) <= StartedDateMinLen

\* The lower-cased, trimmed status text says 'started' without 'not', or 'yes'.
StatusTextSaysStarted(x) ==
    LET s == Strip(Lower(Str(x)))
    IN \/ Contains(s, S_started) /\ ~Contains(s, S_not)
       \/ Contains(s, S_yes)

\* C16: in the API variant, on a table with a status column, a record without a
\* start-date override has Status_Clean = 'Started' exactly when its lower-cased,
\* trimmed status text contains 'started' and not 'not', or contains 'yes';
\* otherwise its Status_Clean is 'Not Started'.
C16_StatusTextClassification ==
    (variant = "api" /\ Normalized /\ ~IsEmpty(raw) /\ "Status" \in df.columns) =>
        /\ "Status_Clean" \in df.columns
        /\ \A i \in 1..Len(df.rows) :
              NoStartDateOverride(df, i) =>
                 df.rows[i]["Status_Clean"] =
                    IF StatusTextSaysStarted(df.rows[i]["Status"])
                    THEN "Started" ELSE "Not Started"

C16_Witness ==
    /\ variant = "api" /\ Normalized
    /\ {"Status", "Started_Date", "Status_Clean"} \subseteq df.columns
    /\ \E i, j \in 1..Len(df.rows) :
          /\ NoStartDateOverride(df, i) /\ NoStartDateOverride(df, j)
          /\ df.rows[i]["Status_Clean"] = "Started"
          /\ Contains(Lower(Str(df.rows[j]["Status"])), S_started)
          /\ df.rows[j]["Status_Clean"] = "Not Started"

\* C18: the rows of every breakdown are in non-increasing order of
\* Total_Students, so the first row has the greatest Total_Students.
C18_BreakdownsSortedByTotal ==
    \A k \in 1..Len(Breakdowns) :
        LET rows == Breakdowns[k].perf.rows
        IN /\ \A i \in 1..(Len(rows) - 1) :
                 rows[i].Total_Students >= rows[i + 1].Total_Students
           /\ \A i \in 1..Len(rows) :
                 rows[1].Total_Students >= rows[i].Total_Students

\* A breakdown whose sort put a later key first.
C18_Witness ==
    /\ pc = "done"
    /\ \E k \in 1..Len(Breakdowns) :
          LET rows == Breakdowns[k].perf.rows
          IN /\ Breakdowns[k].perf.status = "returned"
             /\ Len(rows) = 2
             /\ rows[1].Total_Students > rows[2].Total_Students
             /\ LexLess(Str(rows[2].Key), Str(rows[1].Key))

\* C19 (as claimed): in the summary, completed never exceeds started, so
\* in_progress is never negative.
C19_InProgressNeverNegative ==
    (kpis.status = "returned" /\ kpis.value # <<>>) =>
        /\ kpis.value.completed <= kpis.value.started
        /\ kpis.value.in_progress >= 0

RECURSIVE SumInProgress(_)
SumInProgress(rows) ==
    IF rows = <<>> THEN 0 ELSE Head(rows).In_Progress + SumInProgress(Tail(rows))

\* C20 (as claimed): every row of the tutor breakdown has In_Progress =
\* Started - Completed, and when every record has a tutor the In_Progress
\* values add up to the summary's in_progress.
C20_TutorInProgressAgrees ==
    /\ \A i \in 1..Len(tutor_perf.rows) :
          tutor_perf.rows[i].In_Progress =
             tutor_perf.rows[i].Started - tutor_perf.rows[i].Completed
    /\ ( /\ tutor_perf.status = "returned"
         /\ kpis.status = "returned" /\ kpis.value # <<>>
         /\ "Tutor" \in df.columns
         /\ \A i \in 1..Len(df.rows) : NotNa(df.rows[i]["Tutor"]) )
       => SumInProgress(tutor_perf.rows) = kpis.value.in_progress

\* C11 (as claimed): whatever the source answers, the adapter returns and its
\* pair is (table, None) or (None, message) with the message a non-null string.
C11_AdapterPairShape ==
    adapter_calls > 0 =>
        /\ fetched.status = "returned"
        /\ \/ fetched.df.kind = "frame" /\ fetched.error = PyNone
           \/ fetched.df.kind = "None" /\ fetched.error.kind = "str"

\* C12 (as claimed): after a load action that ended with an adapter error the
\* session holds no table, an error message is shown and the adapter was
\* called once.
C12_TableUnsetAfterError ==
    pc = "load_error" =>
        /\ session_state["data_df"] = NoFrame
        /\ message.kind = "error"
        /\ adapter_calls = 1

\* C12 (amended): a load action that ends with an adapter error leaves the
\* session's table as it was (None if none was loaded, otherwise the table
\* loaded before), shows an error message and calls the adapter once.
C12_TableKeptAfterError ==
    [][pc' = "load_error" =>
          /\ session_state'["data_df"] = session_state["data_df"]
          /\ fetched'.df = NoFrame
          /\ message'.kind = "error"
          /\ adapter_calls' = 1]_vars

\* A failed load in a session that holds a table from an earlier load.
C12_Witness ==
    /\ pc = "load_error"
    /\ session_state["data_df"].kind = "frame"
    /\ shown = "dashboard"
    /\ message.kind = "error"

\* The session as its first run leaves it: no table, no URL but the default
\* one, the filter at 'All Time', the prompt shown and nothing computed.
FreshSession ==
    /\ DOMAIN session_state = IF variant = "api" THEN {"data_df", "api_url"}
                              ELSE {"data_df"}
    /\ session_state["data_df"] = NoFrame
    /\ variant = "api" => session_state["api_url"] = DefaultUrl
    /\ url_text = NotTyped
    /\ selected_month = S_AllTime
    /\ shown = "prompt"
    /\ message = NoMessage
    /\ df = EmptyFrame
    /\ kpis = PendingKpis
    /\ tutor_perf = Pending /\ team_perf = Pending /\ course_analysis = Pending
    /\ excel_data = "none"

ViewOfSelection ==
    LET t == session_state["data_df"].frame
    IN IF selected_month = S_AllTime
       THEN df = t
       ELSE /\ df.columns = t.columns
            /\ \A i \in 1..Len(df.rows) :
                  /\ df.rows[i]["Month"] = Txt(selected_month)
                  /\ \E j \in 1..Len(t.rows) : t.rows[j] = df.rows[i]
            /\ Len(df.rows) =
                  Cardinality({j \in 1..Len(t.rows) :
                                  t.rows[j]["Month"] = Txt(selected_month)})

\* C17: the session's table changes only in a successful load (to the
\* normalized table fetched) and in a reset (to None); the month filter,
\* refresh, tabs and exports leave it as it is; what is shown is computed from
\* the view of the selected month, and under 'All Time' that is the whole table.
C17_TableChangesOnlyByLoadOrReset ==
    /\ [][session_state'["data_df"] # session_state["data_df"] =>
             \/ /\ pc' = "load_ok"
                /\ fetched'.df.kind = "frame"
                /\ session_state'["data_df"] =
                      SomeFrame(normalize_dataframe(variant, fetched'.df.frame))
             \/ /\ pc' = "cleared"
                /\ session_state'["data_df"] = NoFrame]_vars
    /\ [](shown # "prompt" =>
             /\ ViewOfSelection
             /\ kpis = calculate_kpis(df)
             /\ tutor_perf.status # "pending" =>
                   tutor_perf = create_tutor_performance(df)
             /\ team_perf.status # "pending" =>
                   team_perf = create_team_performance(df)
             /\ course_analysis.status # "pending" =>
                   course_analysis = create_course_analysis(df))
    /\ []((shown = "dashboard" /\ selected_month = S_AllTime) =>
             kpis.value.total_students = Len(session_state["data_df"].frame.rows))

\* 'All Time' picked after a month: the two records of the table are back.
C17_Witness ==
    /\ pc = "month_selected"
    /\ selected_month = S_AllTime
    /\ shown = "dashboard"
    /\ Len(df.rows) = 2
    /\ kpis.value.total_students = 2

\* C21 (as claimed): whenever the main content is entered, the table passed to
\* calculate_kpis is non-empty and a summary it returns has its fields; so
\* after a load and the choice of any month the filter offers, the filtered
\* table holds at least one record.
C21_KpiTableNonEmpty ==
    shown # "prompt" =>
        /\ ~IsEmpty(df)
        /\ kpis.status = "returned" => kpis.value # <<>>

\* A month the filter offered was chosen and no record of the table has it.
C21_Witness ==
    /\ pc = "month_selected"
    /\ selected_month \in MonthOptions(session_state["data_df"].frame)
    /\ Len(session_state["data_df"].frame.rows) > 0
    /\ Len(df.rows) = 0
    /\ kpis.status = "returned" /\ kpis.value = <<>>
    /\ shown = "exception"

=============================================================================
